---- MODULE Spec2Model ----
(***************************************************************************)
(* Model of the two service adapters of the repository:                    *)
(*   src/services/imvuService.ts   - the backend connector (ImvuService):  *)
(*       one event channel (WebSocket) with reconnect-after-delay, four    *)
(*       callback slots, and six one-shot request operations (fetch);      *)
(*   src/services/geminiService.ts - the response generator: the reply     *)
(*       of generateBotResponse, its prompt, summarizeRoom and the turn    *)
(*       coordination of coordinateDialogue.                               *)
(*                                                                         *)
(* The single event loop runs one handler, or one stretch of an async      *)
(* method between two awaits, per step.                                    *)
(*                                                                         *)
(* Spec          the event channel with its four callback slots: the       *)
(*               channel's lifecycle, registrations and inbound frames.    *)
(* RequestSpec   the event channel and the request operations side by      *)
(*               side, with registrations in the log slot.                 *)
(* DialogueSpec  coordinateDialogue called round after round on a history  *)
(*               that the caller extends.                                  *)
(* LiveSpec      Spec under the event loop's fairness: timers fire and a   *)
(*               failed channel gets its close event.                      *)
(* ReconnectSpec Spec with a record of closes since the last registration. *)
(* CallerSpec    the channel's lifecycle and every caller-invoked method.  *)
(* GeneratorSpec generateBotResponse from its call to its return.          *)
(* PromptSpec    generatePrompt and summarizeRoom on long histories.       *)
(***************************************************************************)
EXTENDS Naturals, Sequences, FiniteSets

VARIABLES
    \* ---- ImvuService (imvuService.ts) ----
    messageCallback,      \* this.messageCallback
    logCallback,          \* this.logCallback
    userJoinedCallback,   \* this.userJoinedCallback
    userLeftCallback,     \* this.userLeftCallback
    ws,                   \* this.ws: the id of the current channel, 0 for null
    sockets,              \* every WebSocket object created: id -> lifecycle state
    timers,               \* number of pending setTimeout(connectWebSocket) timers
    requests,             \* the async request operations suspended at an await
    registered,           \* per slot, the callbacks passed to its registration
                          \* method, in the order of their latest registration
    last,                 \* what the handler that ran last did
    closedSinceReg,       \* a channel was closed after the latest registration
    \* ---- coordinateDialogue (geminiService.ts) ----
    API_KEY,              \* the key getApiKey() found at load, "" for none
    botA, botB,           \* the two Bot arguments
    history,              \* the Message[] argument, extended by the caller
    reply,                \* the value the last call resolved to
    appended,             \* the caller has appended that reply to the history
    prevSpeaker,          \* botToSpeak of the call before, when the last call
                          \* saw the history extended by just that call's reply
    \* ---- generateBotResponse and summarizeRoom (geminiService.ts) ----
    gen,                  \* the generateBotResponse call: its arguments, where
                          \* it is suspended, and what it resolved to
    summary               \* the value summarizeRoom resolved to

connVars == <<messageCallback, logCallback, userJoinedCallback, userLeftCallback,
              ws, sockets, timers, requests, registered, last, closedSinceReg>>
dlgVars  == <<API_KEY, botA, botB, history, reply, appended, prevSpeaker>>
genVars  == <<gen, summary>>
\* what the handlers of the connector never touch
restVars == <<dlgVars, genVars, closedSinceReg>>
vars     == <<messageCallback, logCallback, userJoinedCallback, userLeftCallback,
              ws, sockets, timers, requests, registered, last, closedSinceReg,
              API_KEY, botA, botB, history, reply, appended, prevSpeaker,
              gen, summary>>

----------------------------------------------------------------------------
(* Bounds of the model *)

\* WebSocket objects that can exist at once (a closed one is collected and
\* its id reused)
MaxSockets == 2
\* request operations that can be suspended at an await at once
MaxRequests == 1
\* longest history handed to coordinateDialogue
MaxHistory == 3
\* longest history handed to generatePrompt and summarizeRoom
MaxPromptHistory == 12
\* most pieces in the text a completion returns
MaxTextLen == 4

----------------------------------------------------------------------------
(* Values *)

Null == "null"
\* the functions a caller can register
Callbacks == {"cbA", "cbB"}
Slots == {"message", "user_joined", "user_left", "log"}
SocketIds == 1..MaxSockets
BotIds == {"bot1", "bot2"}
\* the bot whose requests are followed to their completion
ActiveBots == {"bot1"}
Usernames == {"alice", "bob"}
\* password argument of login: omitted, empty, or a non-empty string
Passwords == {"undefined", "", "secret"}

\* Bot {id, name, aiProvider} and the result {botToSpeak, message}
Bot(id, name, aiProvider) == [id |-> id, name |-> name, aiProvider |-> aiProvider]
NoBot == Bot("none", "none", "none")
NoReply == [botToSpeak |-> "none", message |-> "none"]

\* `!password` of login: undefined and the empty string are falsy
Falsy(password) == password = "undefined" \/ password = ""

\* A callback invocation: the function called, the slot it was read from and
\* the arguments it got.
Call(slot, cb, args) == [slot |-> slot, cb |-> cb, args |-> args]

\* log(logMessage): the log callback, if one is registered, gets one string,
\* "[<timestamp>] <logMessage>"; the model keeps the string's parts: the
\* timestamp, the "[subject]" prefix of the message, and the pieces of its
\* template.
Log(subject, parts) ==
    IF logCallback = Null THEN <<>>
    ELSE <<Call("log", logCallback, <<"timestamp", subject>> \o parts)>>

\* a value an operation resolved to; rooms is the list of getRooms
Ret(kind, val) == [kind |-> kind, val |-> val, rooms |-> <<>>]
NoRet == Ret("none", "none")
Void == Ret("void", "undefined")

\* what a handler did: op, the step of it that ran, the input that step got,
\* how the operation's fetch had settled by then (http), the callback
\* invocations the step made, whether it issued a fetch, whether the operation
\* completed in this step, whether the step threw (for an operation: its
\* promise rejected), and the value it resolved to. payload tells, for a
\* frame, what event.data held.
Ran(op, step, input, payload, http, calls, fetched, done, threw, result) ==
    [op |-> op, step |-> step, input |-> input, payload |-> payload, http |-> http,
     calls |-> calls, fetched |-> fetched, done |-> done, threw |-> threw,
     result |-> result]

Did(op, step, input, http, calls, fetched, done, threw, result) ==
    Ran(op, step, input, "none", http, calls, fetched, done, threw, result)

Event(op, input, calls) ==
    Did(op, "event", input, "none", calls, FALSE, FALSE, FALSE, NoRet)

\* how a step of an async operation ends: the invocations it made, and the
\* promise rejected (threw) or resolved to result
Outcome(calls, threw, result) == [calls |-> calls, threw |-> threw, result |-> result]

slotVars == <<messageCallback, logCallback, userJoinedCallback, userLeftCallback, registered>>
chanVars == <<ws, sockets, timers>>

----------------------------------------------------------------------------
(* The event channel: connectWebSocket and the four handlers it installs *)

\* a WebSocket whose close event has not been dispatched yet
Pending(s) == sockets[s] \in {"connecting", "open", "failing"}
\* a channel that is connecting or open
Live(s) == sockets[s] \in {"connecting", "open"}
LiveSockets == {s \in SocketIds : Live(s)}

\* ids no WebSocket object uses: never created, or closed for good
FreeIds == {s \in SocketIds : sockets[s] \in {"none", "closed"}}
NewId == CHOOSE s \in FreeIds : \A t \in FreeIds : s <= t

\* connectWebSocket(): `new WebSocket(WS_URL)` either returns a connecting
\* channel, which is stored in this.ws with its handlers installed, or throws,
\* and the catch branch logs and returns: this.ws keeps its value and nothing
\* is scheduled.
ConnectWebSocket(threw) ==
    IF threw
    THEN /\ UNCHANGED <<ws, sockets>>
         /\ last' = Event("connectWebSocket", "threw",
                Log("WebSocket", <<"Failed to connect. Make sure backend is running on port 3001">>))
    ELSE /\ FreeIds # {}
         /\ ws' = NewId
         /\ sockets' = [sockets EXCEPT ![NewId] = "connecting"]
         /\ last' = Event("connectWebSocket", "created", <<>>)

\* the reconnect timer set by onclose fires: () => this.connectWebSocket()
TimerFires ==
    /\ timers > 0
    /\ timers' = timers - 1
    /\ \E threw \in BOOLEAN : ConnectWebSocket(threw)
    /\ UNCHANGED <<slotVars, requests>>

\* ws.onopen
WsOnOpen(s) ==
    /\ sockets[s] = "connecting"
    /\ sockets' = [sockets EXCEPT ![s] = "open"]
    /\ last' = Event("onopen", "open", Log("WebSocket", <<"Connected to backend server">>))
    /\ UNCHANGED <<ws, timers, slotVars, requests>>

\* ws.onerror with a reconnect of its own
WsOnErrorReconnects(s) ==
    /\ Live(s)
    /\ sockets' = [sockets EXCEPT ![s] = "failing"]
    /\ timers' = timers + 1
    /\ last' = Event("onerror", sockets[s], Log("WebSocket", <<"Error connecting to backend">>))
    /\ UNCHANGED <<ws, slotVars, requests>>

\* ws.onerror: the connection failed or was lost; the handler only logs. The
\* browser dispatches the channel's close event after it.
WsOnError(s) ==
    /\ Live(s)
    /\ sockets' = [sockets EXCEPT ![s] = "failing"]
    /\ last' = Event("onerror", sockets[s], Log("WebSocket", <<"Error connecting to backend">>))
    /\ UNCHANGED <<ws, timers, slotVars, requests>>

\* ws.onclose that logs and sets no timer
WsOnCloseNoReconnect(s) ==
    /\ Pending(s)
    /\ sockets' = [sockets EXCEPT ![s] = "closed"]
    /\ last' = Event("onclose", sockets[s],
            Log("WebSocket", <<"Disconnected from backend. Reconnecting in 3s...">>))
    /\ UNCHANGED <<ws, timers, slotVars, requests>>

\* ws.onclose that also drops the registered callbacks
WsOnCloseClearsSlots(s) ==
    /\ Pending(s)
    /\ sockets' = [sockets EXCEPT ![s] = "closed"]
    /\ timers' = timers + 1
    /\ last' = Event("onclose", sockets[s],
            Log("WebSocket", <<"Disconnected from backend. Reconnecting in 3s...">>))
    /\ messageCallback' = Null
    /\ logCallback' = Null
    /\ userJoinedCallback' = Null
    /\ userLeftCallback' = Null
    /\ UNCHANGED <<ws, registered, requests>>

\* ws.onclose: dispatched once per WebSocket; logs and sets the 3 s timer
WsOnClose(s) ==
    /\ Pending(s)
    /\ sockets' = [sockets EXCEPT ![s] = "closed"]
    /\ timers' = timers + 1
    /\ last' = Event("onclose", sockets[s],
            Log("WebSocket", <<"Disconnected from backend. Reconnecting in 3s...">>))
    /\ UNCHANGED <<ws, slotVars, requests>>


----------------------------------------------------------------------------
(* The callback slots and the inbound frames *)

\* the registrations of a slot after one more: callback is the latest
Register(slot, callback) ==
    [registered EXCEPT ![slot] = Append(SelectSeq(@, LAMBDA c : c # callback), callback)]

\* the callback registered latest in a slot, Null when none ever was
Latest(slot) ==
    IF registered[slot] = <<>> THEN Null ELSE registered[slot][Len(registered[slot])]

\* the callbacks registered in a slot before the latest one
Earlier(slot) == {registered[slot][i] : i \in 1..(Len(registered[slot]) - 1)}

\* onMessage that keeps the callback already registered
onMessageKeepsFirst(callback) ==
    /\ messageCallback' = IF messageCallback = Null THEN callback ELSE messageCallback
    /\ registered' = Register("message", callback)
    /\ last' = Event("onMessage", callback, <<>>)
    /\ UNCHANGED <<logCallback, userJoinedCallback, userLeftCallback, chanVars, requests>>

\* onMessage(callback) { this.messageCallback = callback; }
onMessage(callback) ==
    /\ messageCallback' = callback
    /\ registered' = Register("message", callback)
    /\ last' = Event("onMessage", callback, <<>>)
    /\ UNCHANGED <<logCallback, userJoinedCallback, userLeftCallback, chanVars, requests>>

\* onLog(callback) { this.logCallback = callback; }
onLog(callback) ==
    /\ logCallback' = callback
    /\ registered' = Register("log", callback)
    /\ last' = Event("onLog", callback, <<>>)
    /\ UNCHANGED <<messageCallback, userJoinedCallback, userLeftCallback, chanVars, requests>>

\* onUserJoined that hands the new callback an event kept from before
onUserJoinedReplays(callback) ==
    /\ userJoinedCallback' = callback
    /\ registered' = Register("user_joined", callback)
    /\ last' = Event("onUserJoined", callback,
                     <<Call("user_joined", callback, <<"room1", "userX">>)>>)
    /\ UNCHANGED <<messageCallback, logCallback, userLeftCallback, chanVars, requests>>

\* onUserJoined(callback) { this.userJoinedCallback = callback; }
onUserJoined(callback) ==
    /\ userJoinedCallback' = callback
    /\ registered' = Register("user_joined", callback)
    /\ last' = Event("onUserJoined", callback, <<>>)
    /\ UNCHANGED <<messageCallback, logCallback, userLeftCallback, chanVars, requests>>

\* onUserLeft(callback) { this.userLeftCallback = callback; }
onUserLeft(callback) ==
    /\ userLeftCallback' = callback
    /\ registered' = Register("user_left", callback)
    /\ last' = Event("onUserLeft", callback, <<>>)
    /\ UNCHANGED <<messageCallback, logCallback, userJoinedCallback, chanVars, requests>>

\* event.data of a frame. parse tells what JSON.parse makes of it: it throws
\* ("error"), or returns null ("null") or an object {type, data} ("object").
\* data is the Message of a 'message' frame and the string of a 'log' frame
\* (value), {roomId, user} of a 'user_joined' frame and {roomId, userId,
\* username} of a 'user_left' frame; hasData is false when the member data is
\* missing, and "undefined" stands for a member that is missing. 'typing' is a
\* tag the switch has no case for.
Frame(parse, type, hasData, value, roomId, user, userId, username) ==
    [parse |-> parse, type |-> type, hasData |-> hasData, value |-> value,
     roomId |-> roomId, user |-> user, userId |-> userId, username |-> username]
Bare(parse, type) ==
    Frame(parse, type, FALSE, "undefined", "undefined", "undefined", "undefined", "undefined")
Frames ==
    { Frame("object", "message", TRUE, "msg1", "undefined", "undefined", "undefined", "undefined"),
      Frame("object", "user_joined", TRUE, "undefined", "room1", "userX", "undefined", "undefined"),
      Frame("object", "user_left", TRUE, "undefined", "room1", "undefined", "idX", "nameX"),
      Frame("object", "log", TRUE, "backend line", "undefined", "undefined", "undefined", "undefined"),
      Frame("object", "typing", TRUE, "t", "undefined", "undefined", "undefined", "undefined"),
      Bare("object", "user_joined"),
      Bare("object", "user_left"),
      Bare("null", "undefined"),
      Bare("error", "undefined") }

\* what event.data held, as the handler's record tells it
PayloadOf(raw) ==
    IF raw.parse # "object" THEN raw.parse
    ELSE IF raw.hasData THEN "data" ELSE "nodata"

\* slot?.(args): the callback of the slot, when there is one, is called once
Invoke(slot, cb, args) == IF cb = Null THEN <<>> ELSE <<Call(slot, cb, args)>>

\* the handler ends by an exception: no callback was invoked
Thrown == Outcome(<<>>, TRUE, NoRet)
Done(calls) == Outcome(calls, FALSE, NoRet)

\* a switch that falls through from 'message' into 'user_joined'
DispatchFallsThrough(data) ==
    CASE data.type = "message" ->
            Done(Invoke("message", messageCallback, <<data.value>>)
                 \o Invoke("user_joined", userJoinedCallback, <<data.roomId, data.user>>))
      [] data.type = "user_joined" ->
            IF userJoinedCallback # Null /\ ~data.hasData THEN Thrown
            ELSE Done(Invoke("user_joined", userJoinedCallback, <<data.roomId, data.user>>))
      [] data.type = "user_left" ->
            IF userLeftCallback # Null /\ ~data.hasData THEN Thrown
            ELSE Done(Invoke("user_left", userLeftCallback,
                             <<data.roomId, data.userId, data.username>>))
      [] data.type = "log" -> Done(Log("", <<data.value>>))
      [] OTHER -> Done(<<>>)

\* the switch of ws.onmessage on the parsed frame: the callback invocations it
\* leads to. The arguments of a call are evaluated only when the slot holds a
\* callback, and reading a member of a missing data throws.
Dispatch(data) ==
    CASE data.type = "message" ->
            Done(Invoke("message", messageCallback, <<data.value>>))
      [] data.type = "user_joined" ->
            IF userJoinedCallback # Null /\ ~data.hasData THEN Thrown
            ELSE Done(Invoke("user_joined", userJoinedCallback, <<data.roomId, data.user>>))
      [] data.type = "user_left" ->
            IF userLeftCallback # Null /\ ~data.hasData THEN Thrown
            ELSE Done(Invoke("user_left", userLeftCallback,
                             <<data.roomId, data.userId, data.username>>))
      [] data.type = "log" -> Done(Log("", <<data.value>>))
      [] OTHER -> Done(<<>>)

\* ws.onmessage: a frame arrives on an open channel. JSON.parse throws on what
\* is not JSON, and data.type throws on null; an exception ends the handler
\* and leaves the connector as it was.
WsOnMessage(s, raw) ==
    /\ sockets[s] = "open"
    /\ LET o == IF raw.parse = "object" THEN Dispatch(raw) ELSE Thrown
       IN  last' = Ran("onmessage", "event", raw.type, PayloadOf(raw), "none", o.calls,
                       FALSE, FALSE, o.threw, NoRet)
    /\ UNCHANGED <<chanVars, slotVars, requests>>

----------------------------------------------------------------------------
(* The outbound operations: each an async method around one fetch *)

\* how a fetch settles: the promise rejects (the backend is unreachable), or
\* resolves to a response whose ok is true (2xx) or false
FetchOutcomes == {"rejected", "ok", "notok"}

\* the body response.json() reads: not JSON, the JSON null, or an object
Bodies == {"notjson", "null", "success", "success_bare", "failure_error", "failure"}

\* the rooms of a search response; the backend's rooms carry more than id and name
BackendRooms == << [id |-> "r1", name |-> "Lobby", occupancy |-> "3"],
                   [id |-> "r2", name |-> "Club", occupancy |-> "0"] >>

\* the object a JSON body parses to: success, error, rooms and roomId, with
\* hasRooms false and "undefined" for a member the object does not have
Parsed(body) ==
    CASE body = "success" ->
            [success |-> TRUE, error |-> "undefined", hasRooms |-> TRUE,
             rooms |-> BackendRooms, roomId |-> "room1"]
      [] body = "success_bare" ->
            [success |-> TRUE, error |-> "undefined", hasRooms |-> FALSE,
             rooms |-> <<>>, roomId |-> "undefined"]
      [] body = "failure_error" ->
            [success |-> FALSE, error |-> "denied", hasRooms |-> FALSE,
             rooms |-> <<>>, roomId |-> "undefined"]
      [] OTHER ->
            [success |-> FALSE, error |-> "undefined", hasRooms |-> FALSE,
             rooms |-> <<>>, roomId |-> "undefined"]

\* data.error || 'Unknown error'
ErrorOf(data) == IF data.error = "undefined" THEN "Unknown error" ELSE data.error

\* error.message of what the try block can throw
NetworkError == "Failed to fetch"
JsonError == "Unexpected token"
NullError == "Cannot read properties of null"
UndefinedError == "Cannot read properties of undefined"

False == Ret("boolean", "false")
True == Ret("boolean", "true")
NullResult == Ret("null", "null")
EmptyList == Ret("list", "rooms")

\* ---- login ----

\* a catch branch of login that logs and rethrows
LoginCatchRethrows(username, message) ==
    Outcome(Log(username, <<"Login failed: ", message, ". Is the backend running?">>),
            TRUE, NoRet)

\* catch (error) of login
LoginCatch(username, message) ==
    Outcome(Log(username, <<"Login failed: ", message, ". Is the backend running?">>),
            FALSE, False)

\* login after `await response.json()` settles, inside the try block
LoginAfterJson(username, ok, body) ==
    IF body = "notjson" THEN LoginCatch(username, JsonError)
    ELSE IF body = "null" THEN LoginCatch(username, NullError)
    ELSE LET data == Parsed(body) IN
         IF ~ok \/ ~data.success
         THEN Outcome(Log(username, <<"Login failed: ", ErrorOf(data)>>), FALSE, False)
         ELSE Outcome(Log(username, <<"Successfully logged in!">>), FALSE, True)

\* ---- getRooms ----

\* catch (error) of getRooms
GetRoomsCatch(botId, message) ==
    Outcome(Log(botId, <<"Failed to fetch rooms: ", message>>), FALSE, EmptyList)

\* data.rooms.map(room => ({id: room.id, name: room.name}))
MapRooms(rooms) == [i \in 1..Len(rooms) |-> [id |-> rooms[i].id, name |-> rooms[i].name]]

\* getRooms after `await response.json()` settles
GetRoomsAfterJson(botId, ok, body) ==
    IF body = "notjson" THEN GetRoomsCatch(botId, JsonError)
    ELSE IF body = "null" THEN GetRoomsCatch(botId, NullError)
    ELSE LET data == Parsed(body) IN
         IF ~ok \/ ~data.success
         THEN Outcome(Log(botId, <<"Failed to fetch rooms: ", ErrorOf(data)>>), FALSE, EmptyList)
         ELSE IF ~data.hasRooms THEN GetRoomsCatch(botId, UndefinedError)
         ELSE Outcome(<<>>, FALSE,
                      [kind |-> "list", val |-> "rooms", rooms |-> MapRooms(data.rooms)])

\* ---- joinRoom ----

\* catch (error) of joinRoom
JoinRoomCatch(botId, message) ==
    Outcome(Log(botId, <<"Failed to join room: ", message>>), FALSE, NullResult)

\* joinRoom after `await response.json()` settles
JoinRoomAfterJson(botId, ok, body) ==
    IF body = "notjson" THEN JoinRoomCatch(botId, JsonError)
    ELSE IF body = "null" THEN JoinRoomCatch(botId, NullError)
    ELSE LET data == Parsed(body) IN
         IF ~ok \/ ~data.success
         THEN Outcome(Log(botId, <<"Failed to join room: ", ErrorOf(data)>>), FALSE, NullResult)
         ELSE Outcome(<<>>, FALSE, Ret("roomId", data.roomId))

\* ---- logout, leaveRoom, sendMessage: no look at the response ----

\* logout after `await fetch(...)` settles
LogoutAfterFetch(botId, outcome) ==
    IF outcome = "rejected"
    THEN Outcome(Log(botId, <<"Logout failed: ", NetworkError>>), FALSE, Void)
    ELSE Outcome(Log(botId, <<"Logged out">>), FALSE, Void)

\* leaveRoom after `await fetch(...)` settles
LeaveRoomAfterFetch(botId, roomId, outcome) ==
    IF outcome = "rejected"
    THEN Outcome(Log(botId, <<"Failed to leave room: ", NetworkError>>), FALSE, Void)
    ELSE Outcome(Log(botId, <<"Left room ", roomId>>), FALSE, Void)

\* sendMessage after `await fetch(...)` settles
SendMessageAfterFetch(botId, outcome) ==
    IF outcome = "rejected"
    THEN Outcome(Log(botId, <<"Failed to send message: ", NetworkError>>), FALSE, Void)
    ELSE Outcome(<<>>, FALSE, Void)


\* ---- the operations as steps of the event loop ----

RequestIds == 1..MaxRequests
Idle == [op |-> "idle", subject |-> "", arg |-> "", step |-> "idle", ok |-> FALSE]
IdleIds == {r \in RequestIds : requests[r].op = "idle"}
JsonOps == {"login", "getRooms", "joinRoom"}
PlainOps == {"logout", "leaveRoom", "sendMessage"}

\* the operation runs up to its `await fetch(...)` and is suspended there
Suspend(op, subject, arg) ==
    LET r == CHOOSE i \in IdleIds : \A j \in IdleIds : i <= j
    IN  requests' = [requests EXCEPT ![r] =
            [op |-> op, subject |-> subject, arg |-> arg, step |-> "fetch", ok |-> FALSE]]

\* login that refuses only an omitted password
loginRefusesUndefinedOnly(botId, username, password) ==
    /\ password = "undefined" \/ IdleIds # {}
    /\ IF password = "undefined"
       THEN /\ last' = Did("login", "call", password, "none",
                    Log(username, <<"Login failed: Password is required.">>),
                    FALSE, TRUE, FALSE, False)
            /\ UNCHANGED requests
       ELSE /\ last' = Did("login", "call", password, "none",
                    Log(username, <<"Attempting to login via backend...">>),
                    TRUE, FALSE, FALSE, NoRet)
            /\ Suspend("login", username, "")
    /\ UNCHANGED <<chanVars, slotVars>>

\* login(botId, username, password) up to its first await
login(botId, username, password) ==
    /\ Falsy(password) \/ IdleIds # {}
    /\ IF Falsy(password)
       THEN /\ last' = Did("login", "call", password, "none",
                    Log(username, <<"Login failed: Password is required.">>),
                    FALSE, TRUE, FALSE, False)
            /\ UNCHANGED requests
       ELSE /\ last' = Did("login", "call", password, "none",
                    Log(username, <<"Attempting to login via backend...">>),
                    TRUE, FALSE, FALSE, NoRet)
            /\ Suspend("login", username, "")
    /\ UNCHANGED <<chanVars, slotVars>>

\* logout that also closes the event channel
logoutClosesChannel(botId) ==
    /\ IdleIds # {}
    /\ last' = Did("logout", "call", "", "none", <<>>, TRUE, FALSE, FALSE, NoRet)
    /\ Suspend("logout", botId, "")
    /\ sockets' = [s \in SocketIds |-> IF Live(s) THEN "failing" ELSE sockets[s]]
    /\ UNCHANGED <<ws, timers, slotVars>>

\* logout(botId) up to its await
logout(botId) ==
    /\ IdleIds # {}
    /\ last' = Did("logout", "call", "", "none", <<>>, TRUE, FALSE, FALSE, NoRet)
    /\ Suspend("logout", botId, "")
    /\ UNCHANGED <<chanVars, slotVars>>

\* getRooms(botId) up to its first await
getRooms(botId) ==
    /\ IdleIds # {}
    /\ last' = Did("getRooms", "call", "", "none",
            Log(botId, <<"Fetching public rooms...">>), TRUE, FALSE, FALSE, NoRet)
    /\ Suspend("getRooms", botId, "")
    /\ UNCHANGED <<chanVars, slotVars>>

\* joinRoom(botId, roomName) up to its first await
joinRoom(botId, roomName) ==
    /\ IdleIds # {}
    /\ last' = Did("joinRoom", "call", "", "none",
            Log(botId, <<"Joining room: ", roomName, "...">>), TRUE, FALSE, FALSE, NoRet)
    /\ Suspend("joinRoom", botId, roomName)
    /\ UNCHANGED <<chanVars, slotVars>>

\* leaveRoom(botId, roomId) up to its await
leaveRoom(botId, roomId) ==
    /\ IdleIds # {}
    /\ last' = Did("leaveRoom", "call", "", "none", <<>>, TRUE, FALSE, FALSE, NoRet)
    /\ Suspend("leaveRoom", botId, roomId)
    /\ UNCHANGED <<chanVars, slotVars>>

\* sendMessage that goes out only while the event channel is open
sendMessageNeedsOpenChannel(botId, roomId, text) ==
    /\ IdleIds # {}
    /\ ws # 0 /\ sockets[ws] = "open"
    /\ last' = Did("sendMessage", "call", "", "none", <<>>, TRUE, FALSE, FALSE, NoRet)
    /\ Suspend("sendMessage", botId, roomId)
    /\ UNCHANGED <<chanVars, slotVars>>

\* sendMessage(botId, roomId, text) up to its await
sendMessage(botId, roomId, text) ==
    /\ IdleIds # {}
    /\ last' = Did("sendMessage", "call", "", "none", <<>>, TRUE, FALSE, FALSE, NoRet)
    /\ Suspend("sendMessage", botId, roomId)
    /\ UNCHANGED <<chanVars, slotVars>>

\* the rest of an operation whose fetch settled and which awaits nothing more
AfterFetch(q, outcome) ==
    CASE q.op = "login" -> LoginCatch(q.subject, NetworkError)
      [] q.op = "getRooms" -> GetRoomsCatch(q.subject, NetworkError)
      [] q.op = "joinRoom" -> JoinRoomCatch(q.subject, NetworkError)
      [] q.op = "logout" -> LogoutAfterFetch(q.subject, outcome)
      [] q.op = "leaveRoom" -> LeaveRoomAfterFetch(q.subject, q.arg, outcome)
      [] OTHER -> SendMessageAfterFetch(q.subject, outcome)

\* the rest of an operation whose response.json() settled
AfterJson(q, body) ==
    CASE q.op = "login" -> LoginAfterJson(q.subject, q.ok, body)
      [] q.op = "getRooms" -> GetRoomsAfterJson(q.subject, q.ok, body)
      [] OTHER -> JoinRoomAfterJson(q.subject, q.ok, body)

\* the fetch of suspended operation r settles and the operation resumes: with
\* a response, login, getRooms and joinRoom go on to `await response.json()`;
\* otherwise the operation completes
FetchSettles(r, outcome) ==
    /\ requests[r].step = "fetch"
    /\ LET q == requests[r] IN
       IF q.op \in JsonOps /\ outcome # "rejected"
       THEN /\ requests' = [requests EXCEPT ![r].step = "json", ![r].ok = (outcome = "ok")]
            /\ last' = Did(q.op, "fetch", outcome, outcome, <<>>, FALSE, FALSE, FALSE, NoRet)
       ELSE LET o == AfterFetch(q, outcome) IN
            /\ requests' = [requests EXCEPT ![r] = Idle]
            /\ last' = Did(q.op, "fetch", outcome, outcome, o.calls, FALSE, TRUE,
                           o.threw, o.result)
    /\ UNCHANGED <<chanVars, slotVars>>

\* response.json() of suspended operation r settles and the operation completes
JsonSettles(r, body) ==
    /\ requests[r].step = "json"
    /\ LET q == requests[r]
           o == AfterJson(q, body) IN
       /\ requests' = [requests EXCEPT ![r] = Idle]
       /\ last' = Did(q.op, "json", body, IF q.ok THEN "ok" ELSE "notok", o.calls,
                      FALSE, TRUE, o.threw, o.result)
    /\ UNCHANGED <<chanVars, slotVars>>

----------------------------------------------------------------------------
(* The connector as a whole *)

RoomNames == {"Lobby"}
RoomIds == {"room1"}
Texts == {"hello"}

\* `new ImvuService()`: the fields' initialisers, then connectWebSocket()
ConnInit ==
    /\ messageCallback = Null
    /\ logCallback = Null
    /\ userJoinedCallback = Null
    /\ userLeftCallback = Null
    /\ registered = [k \in Slots |-> <<>>]
    /\ timers = 0
    /\ requests = [r \in RequestIds |-> Idle]
    /\ closedSinceReg = FALSE
    /\ \/ /\ ws = 1
          /\ sockets = [s \in SocketIds |-> IF s = 1 THEN "connecting" ELSE "none"]
          /\ last = Event("connectWebSocket", "created", <<>>)
       \/ /\ ws = 0
          /\ sockets = [s \in SocketIds |-> "none"]
          /\ last = Event("connectWebSocket", "threw", <<>>)

\* no dialogue is being coordinated
DlgIdle ==
    /\ API_KEY = ""
    /\ botA = NoBot
    /\ botB = NoBot
    /\ history = <<>>
    /\ reply = NoReply
    /\ appended = FALSE
    /\ prevSpeaker = "none"

\* generateBotResponse and summarizeRoom have not been called
NoPersonality ==
    [style |-> "none", humor |-> "none", aggressiveness |-> "none", creativity |-> "none",
     behavior |-> "none", mode |-> "none", language |-> "none"]
NoOutcome == [kind |-> "none", text |-> <<>>]
NoCall ==
    [phase |-> "idle", provider |-> "none", personality |-> NoPersonality,
     botName |-> "none", prompt |-> <<>>, llmCalls |-> 0, returned |-> NoOutcome,
     result |-> <<>>, threw |-> FALSE]
NoSummary == <<>>
GenIdle ==
    /\ gen = NoCall
    /\ summary = NoSummary

Init == ConnInit /\ DlgIdle /\ GenIdle

\* the event loop runs a channel handler
ChannelNext ==
    \/ TimerFires /\ UNCHANGED restVars
    \/ \E s \in SocketIds : WsOnOpen(s) /\ UNCHANGED restVars
    \/ \E s \in SocketIds : WsOnError(s) /\ UNCHANGED restVars
    \/ \E s \in SocketIds : WsOnClose(s) /\ UNCHANGED restVars
    \/ \E s \in SocketIds, data \in Frames : WsOnMessage(s, data) /\ UNCHANGED restVars

\* the caller registers a callback
RegisterNext ==
    \/ \E cb \in Callbacks : onMessage(cb) /\ UNCHANGED restVars
    \/ \E cb \in Callbacks : onLog(cb) /\ UNCHANGED restVars
    \/ \E cb \in Callbacks : onUserJoined(cb) /\ UNCHANGED restVars
    \/ \E cb \in Callbacks : onUserLeft(cb) /\ UNCHANGED restVars

\* the caller starts an operation, or a suspended operation resumes
RequestNext ==
    \/ \E b \in BotIds, u \in Usernames, p \in Passwords : login(b, u, p) /\ UNCHANGED restVars
    \/ \E b \in ActiveBots : logout(b) /\ UNCHANGED restVars
    \/ \E b \in ActiveBots : getRooms(b) /\ UNCHANGED restVars
    \/ \E b \in ActiveBots, n \in RoomNames : joinRoom(b, n) /\ UNCHANGED restVars
    \/ \E b \in ActiveBots, i \in RoomIds : leaveRoom(b, i) /\ UNCHANGED restVars
    \/ \E b \in ActiveBots, i \in RoomIds, t \in Texts : sendMessage(b, i, t) /\ UNCHANGED restVars
    \/ \E r \in RequestIds, o \in FetchOutcomes : FetchSettles(r, o) /\ UNCHANGED restVars
    \/ \E r \in RequestIds, b \in Bodies : JsonSettles(r, b) /\ UNCHANGED restVars

\* the callers of the request operations register the log callback, the one
\* slot the operations read
RequestRegisterNext ==
    \/ \E cb \in Callbacks : onLog(cb) /\ UNCHANGED restVars

----------------------------------------------------------------------------
(* geminiService.ts: generateBotResponse and coordinateDialogue *)

\* A string is a sequence of pieces; " ", "\n" and "\r" are the pieces that
\* trim() takes for white space, "\n" the one split('\n') breaks lines at.
WhiteSpace == {" ", "\n", "\r"}

RECURSIVE TrimStart(_)
TrimStart(text) ==
    IF text # <<>> /\ Head(text) \in WhiteSpace THEN TrimStart(Tail(text)) ELSE text

RECURSIVE TrimEnd(_)
TrimEnd(text) ==
    IF text # <<>> /\ text[Len(text)] \in WhiteSpace
    THEN TrimEnd(SubSeq(text, 1, Len(text) - 1)) ELSE text

\* a trim of the start of the text only
TrimStartOnly(text) == TrimStart(text)

\* text.trim()
Trim(text) == TrimEnd(TrimStart(text))

\* text.split('\n')[0]
RECURSIVE FirstLine(_)
FirstLine(text) ==
    IF text = <<>> \/ Head(text) = "\n" THEN <<>>
    ELSE <<Head(text)>> \o FirstLine(Tail(text))

mockResponses ==
    << <<"lol that's funny">>, <<"idk">>, <<"cool">>, <<"what do you mean?">>,
       <<"nice outfit!">> >>
\* Math.floor(Math.random() * mockResponses.length)
MockIndexes == 0..(Len(mockResponses) - 1)
Apology == <<"I'm not sure what to say.">>

\* how ai.models.generateContent settles: it throws, or resolves to a response
\* whose text is undefined or a string
Throws == [kind |-> "throws", text |-> <<>>]
NoText == [kind |-> "undefined", text |-> <<>>]
Text(text) == [kind |-> "text", text |-> text]
LlmOutcomes == {Throws, NoText, Text(<<>>), Text(<<" ", "hi", "\n", "there", "\n">>)}

\* a test that takes the mock path for the 'gpt' provider only
UseMockForGptOnly(provider) == provider = "gpt"

\* provider === 'gpt' || !ai || !API_KEY, where ai is null exactly when
\* API_KEY is ""
UseMock(provider) == provider = "gpt" \/ API_KEY = ""

\* generateBotResponse(personality, history, botName, provider), given the
\* random index drawn on the mock path and the way the completion call
\* settles on the other
generateBotResponse(provider, rnd, llm) ==
    IF UseMock(provider)
    THEN mockResponses[rnd + 1]
    ELSE IF llm.kind # "text" THEN Apology
    ELSE LET line == FirstLine(Trim(llm.text)) IN
         IF line = <<>> THEN mockResponses[1] ELSE line

\* a tie-break that takes botA for the last speaker of an empty history
LastSpeakerIdDefaultsToBotA(a, b, h) ==
    IF Len(h) > 0 THEN h[Len(h)].authorId ELSE a.id

\* history.length > 0 ? history[history.length - 1].authorId : botB.id
LastSpeakerId(a, b, h) ==
    IF Len(h) > 0 THEN h[Len(h)].authorId ELSE b.id

\* a turn rule that tests the last speaker against botA
BotToSpeakTestsBotA(a, b, lastSpeakerId) == IF lastSpeakerId = a.id THEN a ELSE b

\* lastSpeakerId === botB.id ? botA : botB
BotToSpeak(a, b, lastSpeakerId) == IF lastSpeakerId = b.id THEN a ELSE b

\* coordinateDialogue(botA, botB, history)
coordinateDialogue(a, b, h, rnd, llm) ==
    LET botToSpeak == BotToSpeak(a, b, LastSpeakerId(a, b, h))
    IN  [botToSpeak |-> botToSpeak.id,
         message |-> generateBotResponse(botToSpeak.aiProvider, rnd, llm)]

\* ---- the dialogue loop of a caller ----

Bots == {Bot("bot1", "Ana", "gemini"), Bot("bot2", "Ben", "gpt")}
\* Message {author, authorId, text}
Message(author, authorId, text) == [author |-> author, authorId |-> authorId, text |-> text]

\* the caller calls coordinateDialogue with the two bots and the history
CoordinateDialogue ==
    /\ \E rnd \in MockIndexes, llm \in LlmOutcomes :
            reply' = coordinateDialogue(botA, botB, history, rnd, llm)
    /\ prevSpeaker' = IF appended THEN reply.botToSpeak ELSE "none"
    /\ appended' = FALSE
    /\ UNCHANGED <<API_KEY, botA, botB, history, connVars, genVars>>

\* the caller appends the reply to the history as the selected bot's message
AppendReply ==
    /\ reply # NoReply
    /\ ~appended
    /\ Len(history) < MaxHistory
    /\ LET bot == IF reply.botToSpeak = botA.id THEN botA ELSE botB
       IN  history' = Append(history, Message(bot.name, bot.id, reply.message))
    /\ appended' = TRUE
    /\ UNCHANGED <<API_KEY, botA, botB, reply, prevSpeaker, connVars, genVars>>

\* someone else in the room says something
UserPosts ==
    /\ Len(history) < MaxHistory
    /\ history' = Append(history, Message("Uma", "user1", <<"hey">>))
    /\ reply' = NoReply
    /\ appended' = FALSE
    /\ prevSpeaker' = "none"
    /\ UNCHANGED <<API_KEY, botA, botB, connVars, genVars>>

\* the module is loaded with or without a key; a caller picks two bots
DialogueInit ==
    /\ ConnInit
    /\ API_KEY \in {"", "key"}
    /\ botA \in Bots
    /\ botB \in Bots
    /\ history = <<>>
    /\ reply = NoReply
    /\ appended = FALSE
    /\ prevSpeaker = "none"
    /\ GenIdle

DialogueNext == CoordinateDialogue \/ AppendReply \/ UserPosts
DialogueSpec == DialogueInit /\ [][DialogueNext]_vars

----------------------------------------------------------------------------
(* geminiService.ts: generatePrompt and summarizeRoom *)

\* AIPersonality; the numbers are written as the template prints them
Personalities ==
    { [style |-> "casual", humor |-> "80", aggressiveness |-> "10", creativity |-> "60",
       behavior |-> "friendly", mode |-> "chat", language |-> "en"],
      [style |-> "formal", humor |-> "0", aggressiveness |-> "100", creativity |-> "0",
       behavior |-> "rude", mode |-> "debate", language |-> "pt"] }
BotNames == {b.name : b \in Bots}
Providers == {b.aiProvider : b \in Bots}

\* `${msg.author}: ${msg.text}`
Line(msg) == <<msg.author, ": ">> \o msg.text

\* the number of messages slice(-10) keeps
HistoryWindow == 10

\* a slice that keeps the first ten messages
SliceFirst(h) == SubSeq(h, 1, IF Len(h) > HistoryWindow THEN HistoryWindow ELSE Len(h))

\* history.slice(-10)
Slice(h) ==
    SubSeq(h, IF Len(h) > HistoryWindow THEN Len(h) - HistoryWindow + 1 ELSE 1, Len(h))

\* lines.join('\n')
RECURSIVE Join(_)
Join(lines) ==
    IF lines = <<>> THEN <<>>
    ELSE IF Len(lines) = 1 THEN lines[1]
    ELSE lines[1] \o <<"\n">> \o Join(Tail(lines))

\* history.slice(-10).map(msg => `${msg.author}: ${msg.text}`).join('\n')
HistoryText(h) == Join([i \in 1..Len(Slice(h)) |-> Line(Slice(h)[i])])

\* the template of generatePrompt up to ${historyText}, and after it
PromptHead(personality, botName) ==
    <<"\nYou are an IMVU chat bot named ", botName,
      ". Your personality is strictly defined by these traits:\n- Style: ",
      personality.style,
      "\n- Humor Level (0-100): ", personality.humor,
      "\n- Aggressiveness (0-100): ", personality.aggressiveness,
      "\n- Creativity (0-100): ", personality.creativity,
      "\n- Behavior: ", personality.behavior,
      "\n- Mode: ", personality.mode,
      "\n- Language: ", personality.language,
      "\n\nBased on this personality, you must continue the following conversation.\nYour response should be a single, short chat message. Do not use your name in the response.\n\nConversation History:\n">>
PromptTail(botName) == <<"\n\n", botName, ":">>

\* generatePrompt(personality, history, botName)
generatePrompt(personality, h, botName) ==
    PromptHead(personality, botName) \o HistoryText(h) \o PromptTail(botName)

QuietRoom == <<"The room is quiet.">>

\* a summary that takes the first message of the history
summarizeRoomTakesFirst(h) ==
    IF Len(h) = 0 THEN QuietRoom
    ELSE <<"The last message was from ", h[1].author, ": \"">> \o h[1].text
         \o <<"\". The conversation seems casual.">>

\* summarizeRoom(history)
summarizeRoom(h) ==
    IF Len(h) = 0 THEN QuietRoom
    ELSE LET lastMessage == h[Len(h)] IN
         <<"The last message was from ", lastMessage.author, ": \"">> \o lastMessage.text
         \o <<"\". The conversation seems casual.">>

\* ---- a caller of generateBotResponse and summarizeRoom ----

\* a catch branch that issues the completion call again, once
GenerateContentSettlesRetries(llm) ==
    /\ gen.phase = "llm"
    /\ IF llm.kind # "text" /\ gen.llmCalls < 2
       THEN gen' = [gen EXCEPT !.llmCalls = @ + 1]
       ELSE gen' = [gen EXCEPT !.phase = "done", !.returned = llm,
                               !.result = generateBotResponse(gen.provider, 0, llm)]
    /\ UNCHANGED <<connVars, dlgVars, summary>>

\* generateBotResponse(personality, history, botName, provider) up to its
\* await: of the timer on the mock path, else of ai.models.generateContent,
\* called with the prompt
GenerateBotResponse(personality, botName, provider) ==
    /\ gen.phase \in {"idle", "done"}
    /\ gen' = IF UseMock(provider)
              THEN [NoCall EXCEPT !.phase = "delay", !.provider = provider,
                                  !.personality = personality, !.botName = botName]
              ELSE [NoCall EXCEPT !.phase = "llm", !.provider = provider,
                                  !.personality = personality, !.botName = botName,
                                  !.prompt = generatePrompt(personality, history, botName),
                                  !.llmCalls = 1]
    /\ UNCHANGED <<connVars, dlgVars, summary>>

\* the 500-1000 ms timer of the mock path fires and a filler is drawn
DelayElapses(rnd) ==
    /\ gen.phase = "delay"
    /\ gen' = [gen EXCEPT !.phase = "done",
                          !.result = generateBotResponse(gen.provider, rnd, NoOutcome)]
    /\ UNCHANGED <<connVars, dlgVars, summary>>

\* ai.models.generateContent settles: the try block goes on, or the catch
\* branch returns the apology
GenerateContentSettles(llm) ==
    /\ gen.phase = "llm"
    /\ gen' = [gen EXCEPT !.phase = "done", !.returned = llm,
                          !.result = generateBotResponse(gen.provider, 0, llm)]
    /\ UNCHANGED <<connVars, dlgVars, summary>>

\* summarizeRoom(history), its 300 ms timer included
SummarizeRoom ==
    /\ summary' = summarizeRoom(history)
    /\ UNCHANGED <<connVars, dlgVars, gen>>

\* the texts a completion can return
Pieces == {"hi", " ", "\n", "\r"}
ReturnedTexts == UNION {[1..n -> Pieces] : n \in 0..MaxTextLen}
Completions == {Throws, NoText} \cup {Text(t) : t \in ReturnedTexts}

\* the messages of a room, and the histories made of them
RoomMessages ==
    {Message("Uma", "user1", <<"hey">>), Message("Ana", "bot1", <<"lol", "\n", "ok">>)}
Histories(max) == UNION {[1..n -> RoomMessages] : n \in 0..max}

\* the module is loaded with or without a key; the connector is not involved
GeneratorInit ==
    /\ ConnInit
    /\ ws = 1
    /\ API_KEY \in {"", "key"}
    /\ botA = NoBot
    /\ botB = NoBot
    /\ history \in Histories(1)
    /\ reply = NoReply
    /\ appended = FALSE
    /\ prevSpeaker = "none"
    /\ GenIdle

GeneratorNext ==
    \/ \E p \in Personalities, b \in BotNames, provider \in Providers :
            GenerateBotResponse(p, b, provider)
    \/ \E rnd \in MockIndexes : DelayElapses(rnd)
    \/ \E llm \in Completions : GenerateContentSettles(llm)
GeneratorSpec == GeneratorInit /\ [][GeneratorNext]_vars

\* generatePrompt, on the path of generateBotResponse that calls it, and
\* summarizeRoom, on histories shorter and longer than the window
PromptInit ==
    /\ ConnInit
    /\ ws = 1
    /\ API_KEY = "key"
    /\ botA = NoBot
    /\ botB = NoBot
    /\ history \in Histories(MaxPromptHistory)
    /\ reply = NoReply
    /\ appended = FALSE
    /\ prevSpeaker = "none"
    /\ GenIdle

PromptNext ==
    \/ \E p \in Personalities, b \in BotNames : GenerateBotResponse(p, b, "gemini")
    \/ SummarizeRoom
PromptSpec == PromptInit /\ [][PromptNext]_vars

----------------------------------------------------------------------------
(* The specifications of the connector *)

\* The channel with its four slots.
Next == ChannelNext \/ RegisterNext
Spec == Init /\ [][Next]_vars

\* The channel and the request operations side by side.
RequestStep == ChannelNext \/ RequestRegisterNext \/ RequestNext
RequestSpec == Init /\ [][RequestStep]_vars

\* The channel with its four slots, run by an event loop: a timer that was
\* set fires, and the browser dispatches the close event of a channel that
\* failed.
TimerFairness == WF_vars(TimerFires /\ UNCHANGED restVars)
CloseFairness ==
    \A s \in SocketIds :
        WF_vars(sockets[s] = "failing" /\ WsOnClose(s) /\ UNCHANGED restVars)
LiveSpec == Spec /\ TimerFairness /\ CloseFairness

\* The channel's lifecycle and a caller that uses every method of the
\* connector: the four registrations and the six request operations.
LifecycleNext ==
    \/ TimerFires /\ UNCHANGED restVars
    \/ \E s \in SocketIds : WsOnOpen(s) /\ UNCHANGED restVars
    \/ \E s \in SocketIds : WsOnError(s) /\ UNCHANGED restVars
    \/ \E s \in SocketIds : WsOnClose(s) /\ UNCHANGED restVars

CallerRegisterNext ==
    \/ \E cb \in {"cbA"} : onMessage(cb) /\ UNCHANGED restVars
    \/ \E cb \in {"cbA"} : onLog(cb) /\ UNCHANGED restVars
    \/ \E cb \in {"cbA"} : onUserJoined(cb) /\ UNCHANGED restVars
    \/ \E cb \in {"cbA"} : onUserLeft(cb) /\ UNCHANGED restVars

CallerRequestNext ==
    \/ \E b \in ActiveBots, u \in {"alice"}, p \in Passwords : login(b, u, p) /\ UNCHANGED restVars
    \/ \E b \in ActiveBots : logout(b) /\ UNCHANGED restVars
    \/ \E b \in ActiveBots : getRooms(b) /\ UNCHANGED restVars
    \/ \E b \in ActiveBots, n \in RoomNames : joinRoom(b, n) /\ UNCHANGED restVars
    \/ \E b \in ActiveBots, i \in RoomIds : leaveRoom(b, i) /\ UNCHANGED restVars
    \/ \E b \in ActiveBots, i \in RoomIds, t \in Texts : sendMessage(b, i, t) /\ UNCHANGED restVars
    \/ \E r \in RequestIds, o \in FetchOutcomes : FetchSettles(r, o) /\ UNCHANGED restVars
    \/ \E r \in RequestIds, b \in Bodies : JsonSettles(r, b) /\ UNCHANGED restVars

\* The channel with its four slots, with a record of whether a channel was
\* closed after the latest registration.
ChannelOps == {"connectWebSocket", "onopen", "onerror", "onclose", "onmessage"}
RegisterOps == {"onMessage", "onLog", "onUserJoined", "onUserLeft"}
Tracked ==
    /\ closedSinceReg' = IF last'.op = "onclose" THEN TRUE
                          ELSE IF last'.op \in RegisterOps THEN FALSE
                          ELSE closedSinceReg
    /\ UNCHANGED <<dlgVars, genVars>>

ReconnectNext ==
    \/ TimerFires /\ Tracked
    \/ \E s \in SocketIds : WsOnOpen(s) /\ Tracked
    \/ \E s \in SocketIds : WsOnError(s) /\ Tracked
    \/ \E s \in SocketIds : WsOnClose(s) /\ Tracked
    \/ \E s \in SocketIds, data \in Frames : WsOnMessage(s, data) /\ Tracked
    \/ \E cb \in Callbacks : onMessage(cb) /\ Tracked
    \/ \E cb \in Callbacks : onLog(cb) /\ Tracked
    \/ \E cb \in Callbacks : onUserJoined(cb) /\ Tracked
    \/ \E cb \in Callbacks : onUserLeft(cb) /\ Tracked
ReconnectSpec == Init /\ [][ReconnectNext]_vars

CallerStep == LifecycleNext \/ CallerRegisterNext \/ CallerRequestNext
CallerSpec == Init /\ [][CallerStep]_vars



----------------------------------------------------------------------------
(* Properties of the event channel (Spec) *)

\* C1: a close of the channel leaves exactly one reconnect timer pending and
\* no live channel, and in every reachable state the live (connecting or
\* open) channels and the pending reconnect timers together number at most
\* one: reconnect attempts are never concurrent.
C1_SingleReconnect ==
    /\ Cardinality(LiveSockets) + timers <= 1
    /\ last.op = "onclose" => timers = 1 /\ LiveSockets = {}

\* an open channel was closed and its reconnect is pending
C1_Witness ==
    /\ last.op = "onclose"
    /\ last.input = "open"
    /\ timers = 1

\* C2: the connector is never in a terminal state: a channel whose close is
\* still to come exists, or a reconnect timer is pending, whatever way the
\* earlier attempts failed.
C2_NeverTerminal == (\E s \in SocketIds : Pending(s)) \/ timers > 0

\* the callback a slot holds
SlotValue(slot) ==
    CASE slot = "message" -> messageCallback
      [] slot = "user_joined" -> userJoinedCallback
      [] slot = "user_left" -> userLeftCallback
      [] OTHER -> logCallback

\* C6: an inbound frame of one of the four kinds is never delivered to a
\* callback registered for its kind earlier than the latest one; when it
\* carries its data it is delivered exactly once, to the callback registered
\* latest for its kind, and to nobody if none was ever registered.
C6_LastRegistrationWins ==
    last.op = "onmessage" /\ last.input \in Slots =>
        /\ \A i \in 1..Len(last.calls) : last.calls[i].cb \notin Earlier(last.input)
        /\ Latest(last.input) = Null => last.calls = <<>>
        /\ Latest(last.input) # Null /\ last.payload = "data" =>
              /\ Len(last.calls) = 1
              /\ last.calls[1].cb = Latest(last.input)

\* a message frame is delivered after cbA and then cbB were registered for it
C6_Witness ==
    /\ last.op = "onmessage"
    /\ last.input = "message"
    /\ registered["message"] = <<"cbA", "cbB">>
    /\ Len(last.calls) = 1

\* C7: a frame invokes no slot but the one of its type tag; a frame that
\* carries its data invokes the callback of that slot, once, when the slot
\* holds one; and a frame whose tag is none of the four invokes nothing.
C7_DispatchByTag ==
    last.op = "onmessage" =>
        /\ \A i \in 1..Len(last.calls) : last.calls[i].slot = last.input
        /\ last.input \notin Slots => last.calls = <<>>
        /\ last.input \in Slots /\ SlotValue(last.input) # Null /\ last.payload = "data" =>
              /\ Len(last.calls) = 1
              /\ last.calls[1].cb = SlotValue(last.input)

\* a message frame reaches the message callback while the other three slots
\* hold callbacks too
C7_Witness ==
    /\ last.op = "onmessage"
    /\ last.input = "message"
    /\ last.calls # <<>>
    /\ userJoinedCallback # Null
    /\ userLeftCallback # Null
    /\ logCallback # Null

----------------------------------------------------------------------------
(* Properties of the request operations (RequestSpec) *)

Operations == JsonOps \cup PlainOps

\* the failure result an operation is documented to have
FailureValue(op) ==
    CASE op = "login" -> False
      [] op = "getRooms" -> EmptyList
      [] op = "joinRoom" -> NullResult
      [] OTHER -> Void

\* C3: an operation whose fetch fails at the network level completes without
\* raising, with its failure value: false, the empty list, null, or nothing.
C3_UnreachableBackend ==
    last.op \in Operations /\ last.http = "rejected" =>
        /\ last.done
        /\ ~last.threw
        /\ last.result = FailureValue(last.op)

\* joinRoom has completed against an unreachable backend
C3_Witness ==
    /\ last.op = "joinRoom"
    /\ last.http = "rejected"
    /\ last.done

\* C5: login with an omitted or empty password completes at once with false
\* and has issued no fetch.
C5_NoPasswordNoRequest ==
    last.op = "login" /\ last.step = "call" /\ Falsy(last.input) =>
        /\ last.done
        /\ ~last.threw
        /\ ~last.fetched
        /\ last.result = False

\* login was called with the empty password
C5_Witness ==
    /\ last.op = "login"
    /\ last.step = "call"
    /\ last.input = ""
    /\ last.done

\* the texts that open a failure line of the log
FailureTexts ==
    {"Login failed: ", "Logout failed: ", "Failed to fetch rooms: ",
     "Failed to join room: ", "Failed to leave room: ", "Failed to send message: "}
\* the texts that report an operation as having succeeded
SuccessTexts == {"Successfully logged in!", "Logged out", "Left room "}

\* the operation that completed last was answered with a non-success
\* response: a status that is not 2xx, or a body whose success is false
NonSuccessResponse ==
    /\ last.op \in Operations
    /\ last.done
    /\ \/ last.http = "notok"
       \/ last.step = "json" /\ last.input \in {"failure", "failure_error"}

\* C8: an operation answered with a non-success response does not throw,
\* returns its failure result, writes a failure line to the log callback
\* (when one is registered) and never a line that reports success.
C8_NonSuccessIsFailure ==
    NonSuccessResponse =>
        /\ ~last.threw
        /\ last.result = FailureValue(last.op)
        /\ logCallback # Null =>
              \E i \in 1..Len(last.calls) : last.calls[i].args[3] \in FailureTexts
        /\ \A i \in 1..Len(last.calls) : last.calls[i].args[3] \notin SuccessTexts

PendingRequests == {r \in RequestIds : requests[r].op # "idle"}

\* C10: the channel and the requests do not wait for each other. While a
\* request is pending, an open channel can deliver any frame, a channel can
\* close and a pending reconnect timer can fire; whatever the state of the
\* channel, a pending request can settle in each of its ways, a new request
\* can be issued, and a request that completes does so with a value.
C10_Independent ==
    /\ \A s \in SocketIds :
          /\ PendingRequests # {} /\ sockets[s] = "open" =>
                \A data \in Frames : ENABLED WsOnMessage(s, data)
          /\ PendingRequests # {} /\ Pending(s) => ENABLED WsOnClose(s)
    /\ PendingRequests # {} /\ timers > 0 => ENABLED TimerFires
    /\ \A r \in RequestIds :
          /\ requests[r].step = "fetch" =>
                \A o \in FetchOutcomes : ENABLED FetchSettles(r, o)
          /\ requests[r].step = "json" =>
                \A b \in Bodies : ENABLED JsonSettles(r, b)
    /\ IdleIds # {} =>
          \A b \in ActiveBots :
              /\ ENABLED login(b, "alice", "secret")
              /\ ENABLED logout(b)
              /\ ENABLED getRooms(b)
              /\ ENABLED joinRoom(b, "Lobby")
              /\ ENABLED leaveRoom(b, "room1")
              /\ ENABLED sendMessage(b, "room1", "hello")
    /\ last.op \in Operations /\ last.done => ~last.threw /\ last.result # NoRet

\* a frame was delivered to the log callback while a request was waiting for
\* its response body
C10_Witness ==
    /\ last.op = "onmessage"
    /\ last.calls # <<>>
    /\ \E r \in RequestIds : requests[r].step = "json"

----------------------------------------------------------------------------
(* Properties of coordinateDialogue (DialogueSpec) *)

\* the last call was made with the history as it is now
FreshReply == reply # NoReply /\ ~appended

\* C4 as stated: with an empty history botB is selected to speak first.
C4_EmptyHistorySelectsBotB ==
    FreshReply /\ history = <<>> /\ botA.id # botB.id => reply.botToSpeak = botB.id

\* C4, amended: with an empty history the last speaker defaults to botB, so
\* botA is selected to speak first.
C4_EmptyHistorySelectsBotA ==
    FreshReply /\ history = <<>> /\ botA.id # botB.id => reply.botToSpeak = botA.id

\* coordinateDialogue was called with an empty history for two different bots
C4_Witness ==
    /\ FreshReply
    /\ history = <<>>
    /\ botA.id # botB.id

\* C9: for two bots with different ids the bot selected is never the author
\* of the last history entry, and a call made on the history extended by the
\* reply of the call before selects the other bot.
C9_Alternates ==
    botA.id # botB.id =>
        /\ FreshReply /\ history # <<>> =>
              reply.botToSpeak # history[Len(history)].authorId
        /\ FreshReply /\ prevSpeaker # "none" =>
              /\ reply.botToSpeak # prevSpeaker
              /\ {reply.botToSpeak, prevSpeaker} = {botA.id, botB.id}

\* a third call in a row: its history ends with the replies of the two before
C9_Witness ==
    /\ botA.id # botB.id
    /\ FreshReply
    /\ prevSpeaker # "none"
    /\ Len(history) >= 2
    /\ history[Len(history)].authorId = prevSpeaker
    /\ history[Len(history) - 1].authorId = reply.botToSpeak

----------------------------------------------------------------------------
(* Properties of the reconnect cycle (LiveSpec) *)

----------------------------------------------------------------------------
(* Properties of the caller-invoked methods (CallerSpec) *)

\* the methods a caller invokes: the registrations and the operations
CallerOps == RegisterOps \cup Operations

\* C16: a step of a caller-invoked method (a registration, or a request
\* operation at its call or when it resumes, whether it then succeeds or
\* fails) leaves the channel handle, the state of every channel and the
\* pending reconnect timers as they were.
C16_CallersLeaveChannel == [][last'.op \in CallerOps => UNCHANGED chanVars]_vars

\* sendMessage has failed on a rejected request while the channel is open
\* and the message slot holds a callback
C16_Witness ==
    /\ last.op = "sendMessage"
    /\ last.http = "rejected"
    /\ ws # 0
    /\ sockets[ws] = "open"
    /\ messageCallback # Null

----------------------------------------------------------------------------
(* Properties of the slots across reconnection (ReconnectSpec) *)

\* C17: no step of the channel (a connection attempt, an open, error or close
\* signal, an inbound frame) changes any of the four slots, and a frame that
\* carries its data and arrives after a channel was closed with no
\* registration since is delivered, once, to the callback registered latest
\* for its kind before that close.
C17_RegistrationsSurvive ==
    /\ [][last'.op \in ChannelOps =>
            UNCHANGED <<messageCallback, logCallback, userJoinedCallback,
                        userLeftCallback>>]_vars
    /\ [](/\ closedSinceReg
          /\ last.op = "onmessage"
          /\ last.input \in Slots
          /\ last.payload = "data"
          /\ Latest(last.input) # Null
          => /\ Len(last.calls) = 1
             /\ last.calls[1].cb = Latest(last.input))

\* a message frame is delivered on the channel opened by a reconnect to the
\* callback registered before the previous channel closed
C17_Witness ==
    /\ closedSinceReg
    /\ last.op = "onmessage"
    /\ last.input = "message"
    /\ Len(last.calls) = 1
    /\ last.calls[1].cb = messageCallback

----------------------------------------------------------------------------
(* Properties of events that meet an empty slot (Spec) *)

\* C18: a frame of one of the four kinds that arrives while the slot of its
\* kind is empty invokes nothing and raises nothing, with its data or
\* without; a log line of the connector written while the log slot is empty
\* invokes nothing; a frame leaves the channel handle, the channels and the
\* timers as they were; and nothing is kept for later: a registration
\* invokes no callback, and a frame never leads to more than one invocation.
C18_DroppedWhenSlotEmpty ==
    /\ [](/\ last.op = "onmessage" /\ last.input \in Slots
             /\ last.payload \in {"data", "nodata"} /\ SlotValue(last.input) = Null
             => last.calls = <<>> /\ ~last.threw
          /\ last.op \in ChannelOps /\ logCallback = Null =>
                \A i \in 1..Len(last.calls) : last.calls[i].slot # "log"
          /\ last.op \in RegisterOps => last.calls = <<>>
          /\ last.op = "onmessage" => Len(last.calls) <= 1)
    /\ [][last'.op = "onmessage" => UNCHANGED chanVars]_vars

\* a user-joined frame without data met an empty slot and was dropped while
\* the other slots held callbacks
C18_Witness ==
    /\ last.op = "onmessage"
    /\ last.input = "user_joined"
    /\ last.payload = "nodata"
    /\ userJoinedCallback = Null
    /\ messageCallback # Null
    /\ logCallback # Null
    /\ last.calls = <<>>
    /\ ~last.threw

----------------------------------------------------------------------------
(* Properties of generateBotResponse (GeneratorSpec) *)

\* C11: a call of generateBotResponse with the 'gpt' provider, or with no
\* key configured, issues no completion call and builds no prompt, never
\* throws, waits for nothing but its own timer, which can always fire, and
\* once that has fired has returned one of the five fillers, whatever the
\* personality, the history and the bot name.
C11_MockPath ==
    gen.phase # "idle" /\ (gen.provider = "gpt" \/ API_KEY = "") =>
        /\ gen.llmCalls = 0
        /\ gen.prompt = <<>>
        /\ ~gen.threw
        /\ gen.phase \in {"delay", "done"}
        /\ gen.phase = "delay" => ENABLED (\E rnd \in MockIndexes : DelayElapses(rnd))
        /\ gen.phase = "done" =>
              /\ Len(mockResponses) = 5
              /\ \E i \in 1..5 : gen.result = mockResponses[i]

\* the 'gemini' provider without a key has returned the last filler on a
\* history that is not empty
C11_Witness ==
    /\ gen.phase = "done"
    /\ gen.provider = "gemini"
    /\ API_KEY = ""
    /\ history # <<>>
    /\ gen.result = <<"nice outfit!">>

\* C12: on the path that calls the completion, the call has been issued
\* exactly once while it is awaited and after the function has returned,
\* nothing is thrown to the caller, and when the call threw or resolved to a
\* response without a text the function has returned the apology.
C12_ErrorsBecomeApology ==
    gen.phase \in {"llm", "done"} /\ gen.provider # "gpt" /\ API_KEY # "" =>
        /\ gen.llmCalls = 1
        /\ ~gen.threw
        /\ gen.phase = "done" /\ gen.returned.kind \in {"throws", "undefined"} =>
              gen.result = <<"I'm not sure what to say.">>

\* the completion resolved to a response without a text and the apology was
\* returned
C12_Witness ==
    /\ gen.phase = "done"
    /\ gen.returned = NoText
    /\ gen.llmCalls = 1
    /\ gen.result = Apology

\* C19: when the completion resolved to a response with a text, the
\* function has returned the first filler if every character of the text is
\* white space (an empty text included), and otherwise the characters from
\* the first one that is not white space up to the first "\n" after it, or
\* up to the last one that is not white space if no "\n" comes before; what
\* it returned holds no "\n".
C19_FirstLineOnly ==
    /\ gen.phase = "done"
    /\ gen.provider # "gpt"
    /\ API_KEY # ""
    /\ gen.returned.kind = "text"
    => LET text == gen.returned.text
           inked == {i \in 1..Len(text) : text[i] \notin {" ", "\n", "\r"}}
       IN  /\ \A i \in 1..Len(gen.result) : gen.result[i] # "\n"
           /\ inked = {} => gen.result = <<"lol that's funny">>
           /\ inked # {} =>
                LET first == CHOOSE i \in inked : \A j \in inked : i <= j
                    final == CHOOSE i \in inked : \A j \in inked : i >= j
                    breaks == {k \in first..final : text[k] = "\n"}
                    end == IF breaks = {} THEN final
                           ELSE (CHOOSE k \in breaks : \A l \in breaks : k <= l) - 1
                IN  gen.result = SubSeq(text, first, end)

\* a text of two lines that starts with white space was cut to its first
\* line
C19_Witness ==
    /\ gen.phase = "done"
    /\ gen.returned = Text(<<" ", "hi", "\n", "hi">>)
    /\ gen.result = <<"hi">>

----------------------------------------------------------------------------
(* Properties of generatePrompt and summarizeRoom (PromptSpec) *)

\* the entries of h from index from on, each as its author, ": " and its
\* text, with a "\n" between one entry and the next
RECURSIVE EntryLines(_, _)
EntryLines(h, from) ==
    IF from > Len(h) THEN <<>>
    ELSE <<h[from].author, ": ">> \o h[from].text
         \o (IF from < Len(h) THEN <<"\n">> ELSE <<>>)
         \o EntryLines(h, from + 1)

\* what the prompt holds between its template's head and tail
PromptHistory ==
    SubSeq(gen.prompt, Len(PromptHead(gen.personality, gen.botName)) + 1,
           Len(gen.prompt) - Len(PromptTail(gen.botName)))

\* C13: the prompt handed to the completion call is the template's head,
\* then the last 10 entries of the history (all of them when it has at most
\* 10) as "author: text" lines in the order of the history, and nothing of
\* an earlier entry, then the template's tail.
C13_LastTenEntries ==
    gen.phase = "llm" =>
        LET n == Len(history)
            kept == IF n > 10 THEN 10 ELSE n
        IN  /\ gen.prompt = PromptHead(gen.personality, gen.botName)
                             \o PromptHistory \o PromptTail(gen.botName)
            /\ PromptHistory = EntryLines(history, n - kept + 1)

\* a history of 12 entries whose second entry is dropped and whose third is
\* the first line of the prompt's history
C13_Witness ==
    /\ gen.phase = "llm"
    /\ Len(history) = 12
    /\ history[2].author = "Uma"
    /\ history[3].author = "Ana"
    /\ PromptHistory[1] = "Ana"

\* C14: what summarizeRoom returned is the quiet-room sentence exactly when
\* the history is empty; for any other history it is the sentence made of
\* the template, the author of the last entry and the text of the last
\* entry in quotes, and of nothing else.
C14_SummaryOfLastEntry ==
    summary # NoSummary =>
        /\ (summary = <<"The room is quiet.">>) <=> (history = <<>>)
        /\ history # <<>> =>
              summary = <<"The last message was from ", history[Len(history)].author, ": \"">>
                        \o history[Len(history)].text
                        \o <<"\". The conversation seems casual.">>

\* the summary of a history of two entries by different authors names the
\* second
C14_Witness ==
    /\ summary # NoSummary
    /\ Len(history) = 2
    /\ history[1].author = "Uma"
    /\ history[2].author = "Ana"
    /\ summary[2] = "Ana"

====
